---- MODULE Spec2Model ----
(***************************************************************************)
(* pytest_watch/config.py: MultiLineConfigParser (bracket-array rewrite    *)
(* over configparser.ConfigParser), the dry "--collect-only" invocation    *)
(* that locates the ini file, and merge_config.                            *)
(*                                                                         *)
(* A text is a sequence of characters.  The characters with a role in the  *)
(* two regular expressions and in ConfigParser are themselves ("\n", " ",  *)
(* "=", ":", "[", "]", ",", the quotes, the backslash); every other        *)
(* string ("ignore", "pytest-watch", "a") stands for one run of ordinary   *)
(* characters, which the code never looks inside.                          *)
(***************************************************************************)
EXTENDS Integers, Sequences, FiniteSets, TLC

\* ------------------------------------------------------------------ text
Whitespace == {" ", "\n", "\t"}

Min(S) == CHOOSE x \in S : \A y \in S : x <= y

Max(S) == CHOOSE x \in S : \A y \in S : x >= y

\* str.lstrip(chars) / str.rstrip(chars) / str.strip(chars)
RECURSIVE lstrip(_, _)
lstrip(s, chars) ==
  IF s # <<>> /\ Head(s) \in chars THEN lstrip(Tail(s), chars) ELSE s

RECURSIVE rstrip(_, _)
rstrip(s, chars) ==
  IF s # <<>> /\ s[Len(s)] \in chars
    THEN rstrip(SubSeq(s, 1, Len(s) - 1), chars)
    ELSE s

strip(s, chars) == lstrip(rstrip(s, chars), chars)

\* str.split(sep) for a one-character separator
RECURSIVE split(_, _)
split(s, sep) ==
  LET hits == {i \in 1..Len(s) : s[i] = sep}
  IN IF hits = {}
       THEN <<s>>
       ELSE <<SubSeq(s, 1, Min(hits) - 1)>>
              \o split(SubSeq(s, Min(hits) + 1, Len(s)), sep)

\* sep.join(pieces)
RECURSIVE join(_, _)
join(pieces, sep) ==
  IF pieces = <<>> THEN <<>>
  ELSE IF Len(pieces) = 1 THEN pieces[1]
  ELSE pieces[1] \o sep \o join(Tail(pieces), sep)

\* str.lower(), character by character; the modelled alphabet is lower case
\* but for the characters listed here
lower(s) ==
  [i \in 1..Len(s) |->
     CASE s[i] = "YES" -> "yes"
       [] s[i] = "IGNORE" -> "ignore"
       [] OTHER -> s[i]]

\* --------------------------------------------- MultiLineConfigParser.read
\* first index >= i of s that is not whitespace (Len(s)+1 when none): \s*
RECURSIVE SkipSpace(_, _)
SkipSpace(s, i) ==
  IF i <= Len(s) /\ s[i] \in Whitespace THEN SkipSpace(s, i + 1) ELSE i

\* first index >= i of s that is "=" or whitespace: the end of [^=\s]+
RECURSIVE SkipKey(_, _)
SkipKey(s, i) ==
  IF i <= Len(s) /\ s[i] \notin (Whitespace \cup {"="})
    THEN SkipKey(s, i + 1)
    ELSE i

\* array_pattern, tried at position i of s (re.DOTALL | re.MULTILINE):
\*   ^(?P<key>\s*[^=\s]+\s*=\s*)\[(?P<items>.*?)\]
\* Every greedy run is followed by a character outside its class, so the
\* only match the engine can find takes each run whole; .*? stops at the
\* first "]", on whatever line it is.
array_pattern(s, i) ==
  LET j == SkipSpace(s, i)
      k == SkipKey(s, j)
      l == SkipSpace(s, k)
      m == SkipSpace(s, l + 1)
      closers == {r \in (m + 1)..Len(s) : s[r] = "]"}
  IN IF /\ (i = 1 \/ s[i - 1] = "\n")
        /\ k > j
        /\ l <= Len(s)
        /\ s[l] = "="
        /\ m <= Len(s)
        /\ s[m] = "["
        /\ closers # {}
       THEN [ok |-> TRUE,
             key |-> SubSeq(s, i, m - 1),
             items |-> SubSeq(s, m + 1, Min(closers) - 1),
             end |-> Min(closers)]
       ELSE [ok |-> FALSE, key |-> <<>>, items |-> <<>>, end |-> i]

\* the separator the f-string expression '\\n' denotes where the module
\* compiles (Python 3.12 on; earlier a backslash there is a syntax error):
\* a backslash and the letter n, two characters, neither a line break
ItemSeparator == <<"\\", "n">>

\* the list comprehension of _replace_array
RECURSIVE array_items(_)
array_items(pieces) ==
  IF pieces = <<>> THEN <<>>
  ELSE LET item == pieces[1]
       IN (IF strip(item, Whitespace) # <<>>
             THEN <<strip(strip(strip(item, Whitespace), {"\""}), {"'"})>>
             ELSE <<>>)
          \o array_items(Tail(pieces))

replace_array(match) ==
  match.key \o join(array_items(split(match.items, ",")), ItemSeparator)

\* array_pattern.sub(_replace_array, content): leftmost matches, left to
\* right, the scan resuming after each match
RECURSIVE array_sub(_, _)
array_sub(s, i) ==
  IF i > Len(s) THEN <<>>
  ELSE LET match == array_pattern(s, i)
       IN IF match.ok
            THEN replace_array(match) \o array_sub(s, match.end + 1)
            ELSE <<s[i]>> \o array_sub(s, i + 1)

processed(content) == array_sub(content, 1)

\* ------------------------------------------------ ConfigParser.read_string
\* the exceptions of this module's calls; "none" is a normal return
NoError == "none"

Delimiters == {"=", ":"}

\* SECTCRE, \[(?P<header>.+)\], matched at the start of the stripped line:
\* the header runs to the last "]" of the line
IsSectionHeader(value) ==
  /\ value # <<>>
  /\ value[1] = "["
  /\ \E r \in 3..Len(value) : value[r] = "]"

SectionHeader(value) ==
  SubSeq(value, 2, Max({r \in 3..Len(value) : value[r] = "]"}) - 1)

\* _optcre, (?P<option>.*?)\s*(?:(?P<vi>=|:)\s*(?P<value>.*))$
FirstDelimiter(value) == Min({d \in 1..Len(value) : value[d] \in Delimiters})

SectionIndex(sects, name) ==
  IF \E i \in 1..Len(sects) : sects[i].name = name
    THEN CHOOSE i \in 1..Len(sects) : sects[i].name = name
    ELSE 0

OptionIndex(opts, name) ==
  IF \E i \in 1..Len(opts) : opts[i].name = name
    THEN CHOOSE i \in 1..Len(opts) : opts[i].name = name
    ELSE 0

\* cursect[optname].append(line)
AppendLine(st, line) ==
  [st EXCEPT !.sects[st.cur].opts[st.opt].lines = Append(@, line)]

\* one iteration of the loop of RawConfigParser._read, for a parser with the
\* defaults of ConfigParser(): strict, empty_lines_in_values, delimiters
\* "=" and ":", no inline comment prefixes, no valueless options.  st.cur is
\* cursect (0 for None) and st.opt is optname (0 for None and for '').
ReadLine(st, line) ==
  LET value == strip(line, Whitespace)
      cur_indent_level == SkipSpace(line, 1) - 1
  IN IF st.err # NoError THEN st
     ELSE IF value = <<>>
       THEN IF st.cur # 0 /\ st.opt # 0 THEN AppendLine(st, <<>>) ELSE st
     ELSE IF st.cur # 0 /\ st.opt # 0 /\ cur_indent_level > st.indent
       THEN AppendLine(st, value)
     ELSE IF IsSectionHeader(value)
       THEN IF SectionIndex(st.sects, SectionHeader(value)) # 0
              THEN [st EXCEPT !.err = "DuplicateSectionError"]
              ELSE [st EXCEPT
                      !.sects = Append(@, [name |-> SectionHeader(value),
                                           opts |-> <<>>]),
                      !.cur = Len(st.sects) + 1,
                      !.opt = 0,
                      !.indent = cur_indent_level]
     ELSE IF st.cur = 0
       THEN [st EXCEPT !.err = "MissingSectionHeaderError"]
     ELSE IF \E d \in 1..Len(value) : value[d] \in Delimiters
       THEN LET d == FirstDelimiter(value)
                optname == lower(rstrip(SubSeq(value, 1, d - 1), Whitespace))
                optval == strip(SubSeq(value, d + 1, Len(value)), Whitespace)
                opts == st.sects[st.cur].opts
            IN IF OptionIndex(opts, optname) # 0
                 THEN [st EXCEPT !.err = "DuplicateOptionError"]
                 ELSE [st EXCEPT
                         !.sects[st.cur].opts =
                            Append(@, [name |-> optname, lines |-> <<optval>>]),
                         !.opt = IF optname = <<>> THEN 0 ELSE Len(opts) + 1,
                         !.parsing_error = @ \/ optname = <<>>,
                         !.indent = cur_indent_level]
     ELSE [st EXCEPT !.parsing_error = TRUE, !.indent = cur_indent_level]

RECURSIVE ReadLines(_, _)
ReadLines(st, lines) ==
  IF lines = <<>> THEN st ELSE ReadLines(ReadLine(st, lines[1]), Tail(lines))

\* _join_multiline_values: '\n'.join(val).rstrip()
JoinMultilineValues(sects) ==
  [i \in 1..Len(sects) |->
     [name |-> sects[i].name,
      opts |-> [j \in 1..Len(sects[i].opts) |->
                  [name |-> sects[i].opts[j].name,
                   value |-> rstrip(join(sects[i].opts[j].lines, <<"\n">>),
                                    Whitespace)]]]]

EmptyConfig == [err |-> NoError, sects |-> <<>>]

\* read_string(string): the sections and options of a fresh parser, or the
\* exception raised
read_string(string) ==
  LET st == ReadLines([err |-> NoError, parsing_error |-> FALSE,
                       sects |-> <<>>, cur |-> 0, opt |-> 0, indent |-> 0],
                      split(string, "\n"))
  IN IF st.err # NoError THEN [err |-> st.err, sects |-> <<>>]
     ELSE IF st.parsing_error THEN [err |-> "ParsingError", sects |-> <<>>]
     ELSE [err |-> NoError, sects |-> JoinMultilineValues(st.sects)]

\* MultiLineConfigParser.read of a file that opens: rewrite, then parse
MultiLineConfigParser_read(content) == read_string(processed(content))

has_section(config, section) == SectionIndex(config.sects, section) # 0

has_option(config, section, option) ==
  /\ has_section(config, section)
  /\ OptionIndex(config.sects[SectionIndex(config.sects, section)].opts,
                 lower(option)) # 0

StoredValue(config, section, option) ==
  LET opts == config.sects[SectionIndex(config.sects, section)].opts
  IN opts[OptionIndex(opts, lower(option))].value

\* ----------------------------------------------------------------- values
\* the values of the argument structure and of the parser's getters
ListOf(items) == [type |-> "list", items |-> items, flag |-> FALSE, str |-> <<>>]

BoolOf(b) == [type |-> "bool", items |-> <<>>, flag |-> b, str |-> <<>>]

StrOf(s) == [type |-> "str", items |-> <<>>, flag |-> FALSE, str |-> s]

None == [type |-> "NoneType", items |-> <<>>, flag |-> FALSE, str |-> <<>>]

\* bool(v)
truthy(v) ==
  CASE v.type = "list" -> v.items # <<>>
    [] v.type = "bool" -> v.flag
    [] v.type = "str" -> v.str # <<>>
    [] OTHER -> FALSE

Returns(v) == [exc |-> NoError, val |-> v]

Raises(e) == [exc |-> e, val |-> None]

\* RawConfigParser.get(self, section, option, *, raw=False, vars=None,
\* fallback=_UNSET) takes the section and the option positionally and the
\* rest by keyword only; a call with more positional arguments is a
\* TypeError.  The interpolation of a value without "%" is the value.
RawConfigParser_get(config, positional) ==
  IF Len(positional) > 2 THEN Raises("TypeError")
  ELSE IF ~has_section(config, positional[1]) THEN Raises("NoSectionError")
  ELSE IF ~has_option(config, positional[1], positional[2])
    THEN Raises("NoOptionError")
  ELSE Returns(StrOf(StoredValue(config, positional[1], positional[2])))

\* lines 23-25 of MultiLineConfigParser.get: a value with a line break is
\* returned as the list of its lines
split_value(value) ==
  IF value.exc # NoError THEN value
  ELSE IF \E i \in 1..Len(value.val.str) : value.val.str[i] = "\n"
    THEN Returns(ListOf(split(value.val.str, "\n")))
    ELSE value

\* MultiLineConfigParser.get(section, option), raw, vars and fallback at
\* their defaults
MultiLineConfigParser_get(config, section, option) ==
  split_value(RawConfigParser_get(config,
                <<section, option, <<"False">>, <<"None">>, <<"None">>>>))

\* RawConfigParser._convert_to_boolean, of what get returned
convert_to_boolean(value) ==
  IF value.exc # NoError THEN value
  ELSE IF value.val.type # "str" THEN Raises("AttributeError")
  ELSE IF lower(value.val.str) \in {<<"1">>, <<"yes">>, <<"true">>, <<"on">>}
    THEN Returns(BoolOf(TRUE))
  ELSE IF lower(value.val.str) \in {<<"0">>, <<"no">>, <<"false">>, <<"off">>}
    THEN Returns(BoolOf(FALSE))
  ELSE Raises("ValueError")

\* RawConfigParser.getboolean: _convert_to_boolean(self.get(section, option))
getboolean(config, section, option) ==
  convert_to_boolean(MultiLineConfigParser_get(config, section, option))

\* ----------------------------------------------------------- merge_config
CLI_OPTION_PREFIX == <<"-", "-">>

PytestWatchSection == <<"pytest-watch">>

startswith(s, prefix) ==
  Len(s) >= Len(prefix) /\ SubSeq(s, 1, Len(prefix)) = prefix

\* merge_option with the precedence test lost: the stored value is assigned
\* whatever the command line gave
merge_option_without_precedence(a, cli_name, config) ==
  LET config_name == SubSeq(cli_name, Len(CLI_OPTION_PREFIX) + 1, Len(cli_name))
  IN IF ~startswith(cli_name, CLI_OPTION_PREFIX) THEN [args |-> a, exc |-> NoError]
     ELSE IF ~has_option(config, PytestWatchSection, config_name)
       THEN [args |-> a, exc |-> NoError]
     ELSE [args |-> [a EXCEPT ![cli_name] =
                       StrOf(StoredValue(config, PytestWatchSection, config_name))],
           exc |-> NoError]

\* merge_option extending every sequence, empty or not, with the lines of
\* the stored value
merge_option_accumulating(a, cli_name, config) ==
  LET config_name == SubSeq(cli_name, Len(CLI_OPTION_PREFIX) + 1, Len(cli_name))
  IN IF ~startswith(cli_name, CLI_OPTION_PREFIX) THEN [args |-> a, exc |-> NoError]
     ELSE IF ~has_option(config, PytestWatchSection, config_name)
       THEN [args |-> a, exc |-> NoError]
     ELSE IF a[cli_name].type = "list"
       THEN [args |-> [a EXCEPT ![cli_name].items =
                         @ \o split(StoredValue(config, PytestWatchSection,
                                                config_name), "\n")],
             exc |-> NoError]
     ELSE [args |-> a, exc |-> NoError]

\* lines 160-169: the config option merged by the type of args[cli_name],
\* value being what config.get gives and flag what config.getboolean gives
apply_option(a, cli_name, value, flag) ==
  IF a[cli_name].type = "list"
    THEN IF value.exc # NoError THEN [args |-> a, exc |-> value.exc]
         ELSE IF value.val.type = "list"
           THEN [args |-> [a EXCEPT ![cli_name].items = @ \o value.val.items],
                 exc |-> NoError]
           ELSE [args |-> [a EXCEPT ![cli_name].items = Append(@, value.val.str)],
                 exc |-> NoError]
  ELSE IF a[cli_name].type = "bool"
    THEN IF flag.exc # NoError THEN [args |-> a, exc |-> flag.exc]
         ELSE [args |-> [a EXCEPT ![cli_name] = flag.val], exc |-> NoError]
  ELSE IF value.exc # NoError THEN [args |-> a, exc |-> value.exc]
  ELSE [args |-> [a EXCEPT ![cli_name] = value.val], exc |-> NoError]

\* config_name = cli_name[len(CLI_OPTION_PREFIX):]
ConfigName(cli_name) ==
  SubSeq(cli_name, Len(CLI_OPTION_PREFIX) + 1, Len(cli_name))

\* the body of the loop over args for one cli_name: the argument structure
\* after it and the exception it raised
merge_option(a, cli_name, config) ==
  IF ~startswith(cli_name, CLI_OPTION_PREFIX) THEN [args |-> a, exc |-> NoError]
  ELSE IF truthy(a[cli_name]) THEN [args |-> a, exc |-> NoError]
  ELSE IF ~has_option(config, PytestWatchSection, ConfigName(cli_name))
    THEN [args |-> a, exc |-> NoError]
  ELSE apply_option(a, cli_name,
         MultiLineConfigParser_get(config, PytestWatchSection, ConfigName(cli_name)),
         getboolean(config, PytestWatchSection, ConfigName(cli_name)))

\* for cli_name in args, in the order of the mapping
RECURSIVE merge_options(_, _, _)
merge_options(a, names, config) ==
  IF names = <<>> THEN [args |-> a, exc |-> NoError]
  ELSE LET step == merge_option(a, names[1], config)
       IN IF step.exc # NoError THEN step
          ELSE merge_options(step.args, Tail(names), config)

\* ------------------------------------------------------ the dry invocation
EXIT_OK == "EXIT_OK"

EXIT_NOTESTSCOLLECTED == "EXIT_NOTESTSCOLLECTED"

EXIT_INTERRUPTED == "EXIT_INTERRUPTED"

\* collect_config_plugin.path while it is None
NoPath == ""

\* what one call of pytest.main can do: the hook sees an ini file, or there
\* is none (or the run ends before the hook) and the run returns an exit
\* code or is left by an exception
MainOutcomes ==
  {[inifile |-> "tox.ini", end |-> "StopCollect"]}
    \cup {[inifile |-> NoPath, end |-> e] :
            e \in {EXIT_OK, EXIT_NOTESTSCOLLECTED, EXIT_INTERRUPTED,
                   "EXIT_USAGEERROR", "KeyboardInterrupt", "SystemExit",
                   "Exception"}}

\* CollectConfig.pytest_cmdline_main
pytest_cmdline_main(inifile) ==
  IF inifile # NoPath
    THEN [path |-> inifile, exc |-> "StopCollect"]
    ELSE [path |-> NoPath, exc |-> NoError]

\* _run_pytest_collect, given what pytest.main does: the path returned or
\* the exception raised, and the argv passed
run_pytest_collect(pytest_args_, outcome) ==
  LET hook == pytest_cmdline_main(outcome.inifile)
      argv == pytest_args_ \o <<"--collect-only">>
  IN IF hook.exc = "StopCollect"
       THEN [argv |-> argv, exc |-> NoError, path |-> hook.path]
     ELSE IF outcome.end \in {"KeyboardInterrupt", "SystemExit", "Exception"}
       THEN [argv |-> argv, exc |-> outcome.end, path |-> NoPath]
     ELSE IF outcome.end = EXIT_INTERRUPTED
       THEN [argv |-> argv, exc |-> "KeyboardInterrupt", path |-> NoPath]
     ELSE IF outcome.end \notin {EXIT_OK, EXIT_NOTESTSCOLLECTED}
       THEN [argv |-> argv, exc |-> "CollectError", path |-> NoPath]
     ELSE [argv |-> argv, exc |-> NoError, path |-> hook.path]

\* _collect_config catching Exception and SystemExit only
collect_config_catches_no_interrupt(exc) ==
  exc \in {"Exception", "CollectError", "SystemExit"}

\* except (KeyboardInterrupt, Exception, SystemExit) in _collect_config;
\* CollectError is an Exception
collect_config_catches(exc) ==
  exc \in {"KeyboardInterrupt", "Exception", "CollectError", "SystemExit"}

\* merge_config catching CollectError only
merge_config_catches_collect_error_only(exc) == exc = "CollectError"

\* merge_config catching KeyboardInterrupt only
merge_config_catches_interrupt_only(exc) == exc = "KeyboardInterrupt"

\* except (KeyboardInterrupt, CollectError) in merge_config
merge_config_catches(exc) == exc \in {"KeyboardInterrupt", "CollectError"}

\* ------------------------------------------------------------------ inputs
MaxLines == 3

HeaderPytestWatch == <<"[", "pytest-watch", "]">>

HeaderOther == <<"[", "s", "]">>

HeaderTool == <<"[", "t", "]">>

IgnoreBracket ==
  <<"ignore", " ", "=", " ", "[", " ", "\"", "a", "\"", ",", " ", "\"", "b",
    "\"", " ", "]">>

IgnoreFirst == <<"ignore", " ", "=", " ", "a">>

Continuation == <<" ", " ", "b">>

IgnoreEmpty == <<"IGNORE", " ", "=">>

RunnerLine == <<"runner", " ", "=", " ", "x">>

VerboseLine == <<"verbose", " ", "=", " ", "YES">>

Lines ==
  {HeaderPytestWatch, HeaderOther, HeaderTool, IgnoreBracket, IgnoreFirst, Continuation,
   IgnoreEmpty, RunnerLine, VerboseLine}

RECURSIVE LineLists(_)
LineLists(n) ==
  IF n = 0 THEN {<<>>}
  ELSE LineLists(n - 1)
         \cup {Append(ls, l) : ls \in LineLists(n - 1), l \in Lines}

\* the texts a located file can hold: the files of up to MaxLines lines
\* that the underlying parser reads without error when nothing is rewritten
Contents ==
  {c \in {join(ls, <<"\n">>) : ls \in LineLists(MaxLines)} :
     read_string(c).err = NoError}

\* the parser after config.read(config_path), for each text
ConfigOf == [c \in Contents |-> MultiLineConfigParser_read(c)]

IgnoreKey == <<"-", "-", "ignore">>

VerboseKey == <<"-", "-", "verbose">>

RunnerKey == <<"-", "-", "runner">>

DirectoriesKey == <<"<directories>">>

\* the keys of the argument structure, in the order of the mapping
ArgNames == <<IgnoreKey, VerboseKey, RunnerKey, DirectoriesKey>>

ArgKeys == {ArgNames[i] : i \in 1..Len(ArgNames)}

\* the argument structures the command line parser hands over
ArgStructures ==
  {[k \in ArgKeys |->
      CASE k = IgnoreKey -> ListOf(i)
        [] k = VerboseKey -> BoolOf(v)
        [] k = RunnerKey -> r
        [] OTHER -> ListOf(<<>>)] :
     i \in {<<>>, <<(<<"x">>)>>}, v \in BOOLEAN, r \in {None, StrOf(<<"r">>)}}

PytestArgs == {<<>>, <<"tests">>}

\* ------------------------------------------------------------------- state
VARIABLES pc, args, args0, pytest_args, silent, verbose, invocations,
          stdout, stderr, config_path, content, result

vars == <<pc, args, args0, pytest_args, silent, verbose, invocations,
          stdout, stderr, config_path, content, result>>

Running == [kind |-> "running", value |-> FALSE, exc |-> NoError]

Return(b) == [kind |-> "return", value |-> b, exc |-> NoError]

Raise(e) == [kind |-> "raise", value |-> FALSE, exc |-> e]

\* content before any file is read
Unread == <<"<unread>">>

\* content of a file that cannot be opened
Unopenable == <<"<unopenable>">>

\* merge_config(args, pytest_args, silent, verbose) has just been called
Init ==
  /\ pc = "merge_config"
  /\ args0 \in ArgStructures
  /\ args = args0
  /\ pytest_args \in PytestArgs
  /\ silent \in BOOLEAN
  /\ verbose \in BOOLEAN
  /\ invocations = <<>>
  /\ stdout = 0
  /\ stderr = 0
  /\ config_path = NoPath
  /\ content = Unread
  /\ result = Running

Invocation(run, outcome, silenced) ==
  [argv |-> run.argv, silenced |-> silenced, end |-> outcome.end,
   exc |-> run.exc, path |-> run.path]

\* the except clause of merge_config around _collect_config
CollectFailed(exc) ==
  /\ pc' = "done"
  /\ result' = IF merge_config_catches(exc) THEN Return(FALSE) ELSE Raise(exc)
  /\ UNCHANGED config_path

\* merge_config up to the end of the silenced attempt of _collect_config:
\* the verbose notice, the dry invocation under silence(), and after a
\* caught exception the message on stderr
CollectSilenced ==
  /\ pc = "merge_config"
  /\ silent
  /\ \E outcome \in MainOutcomes :
       LET run == run_pytest_collect(pytest_args, outcome)
       IN /\ invocations' = Append(invocations, Invocation(run, outcome, TRUE))
          /\ stdout' = IF verbose THEN stdout + 1 ELSE stdout
          /\ IF run.exc = NoError
               THEN /\ pc' = "located"
                    /\ config_path' = run.path
                    /\ UNCHANGED <<stderr, result>>
               ELSE IF collect_config_catches(run.exc)
                 THEN /\ pc' = "retry"
                      /\ stderr' = stderr + 1
                      /\ UNCHANGED <<config_path, result>>
                 ELSE /\ CollectFailed(run.exc)
                      /\ UNCHANGED stderr
  /\ UNCHANGED <<args, args0, pytest_args, silent, verbose, content>>

\* the dry invocation without silencing: the only one when silent is unset
\* (after the verbose notice), the second one after a failed silenced attempt
CollectUnsilenced ==
  /\ \/ pc = "merge_config" /\ ~silent
     \/ pc = "retry"
  /\ \E outcome \in MainOutcomes :
       LET run == run_pytest_collect(pytest_args, outcome)
       IN /\ invocations' = Append(invocations, Invocation(run, outcome, FALSE))
          /\ stdout' = IF pc = "merge_config" /\ verbose THEN stdout + 1 ELSE stdout
          /\ IF run.exc = NoError
               THEN /\ pc' = "located"
                    /\ config_path' = run.path
                    /\ UNCHANGED result
               ELSE CollectFailed(run.exc)
  /\ UNCHANGED <<args, args0, pytest_args, silent, verbose, stderr, content>>

\* if not config_path: return True
NothingLocated ==
  /\ pc = "located"
  /\ config_path = NoPath
  /\ pc' = "done"
  /\ result' = Return(TRUE)
  /\ UNCHANGED <<args, args0, pytest_args, silent, verbose, invocations,
                 stdout, stderr, config_path, content>>

\* the rest of merge_config for a parser: the section test, the loop, the
\* return value
MergeSection(a, config) ==
  IF config.err # NoError THEN [args |-> a, result |-> Raise(config.err)]
  ELSE IF ~has_section(config, PytestWatchSection)
    THEN [args |-> a, result |-> Return(TRUE)]
  ELSE LET merged == merge_options(a, ArgNames, config)
       IN [args |-> merged.args,
           result |-> IF merged.exc # NoError THEN Raise(merged.exc)
                      ELSE Return(TRUE)]

\* config.read(config_path) of a file that cannot be opened falls back to
\* ConfigParser.read, which skips it: the parser stays empty
MergeUnopenable ==
  /\ pc = "located"
  /\ config_path # NoPath
  /\ content' = Unopenable
  /\ LET merged == MergeSection(args, EmptyConfig)
     IN args' = merged.args /\ result' = merged.result
  /\ pc' = "done"
  /\ UNCHANGED <<args0, pytest_args, silent, verbose, invocations, stdout,
                 stderr, config_path>>

\* config.read(config_path) of a file with text c, and the merge
Merge ==
  /\ pc = "located"
  /\ config_path # NoPath
  /\ \E c \in Contents :
       LET merged == MergeSection(args, ConfigOf[c])
       IN /\ content' = c
          /\ args' = merged.args
          /\ result' = merged.result
  /\ pc' = "done"
  /\ UNCHANGED <<args0, pytest_args, silent, verbose, invocations, stdout,
                 stderr, config_path>>

Next ==
  \/ CollectSilenced
  \/ CollectUnsilenced
  \/ NothingLocated
  \/ MergeUnopenable
  \/ Merge

Spec == Init /\ [][Next]_vars

\* ------------------------------------------------------------- properties
\* the parser merge_config worked with, once a file was read
Config == IF content \in Contents THEN ConfigOf[content] ELSE EmptyConfig

\* the section defines the option of this key
Defines(config, cli_name) ==
  /\ startswith(cli_name, CLI_OPTION_PREFIX)
  /\ has_option(config, PytestWatchSection, ConfigName(cli_name))

LastInvocation == invocations[Len(invocations)]

\* a dry invocation that was interrupted: the signal raised inside it, or
\* the "interrupted" exit code
Interrupted(inv) == inv.exc = "KeyboardInterrupt"

\* a dry invocation that ended with a collection error
CollectionError(inv) == inv.exc = "CollectError"

\* what follows a failed silenced attempt: the message, then one unsilenced
\* invocation
Retried ==
  /\ stderr = 1
  /\ \/ pc = "retry" /\ Len(invocations) = 1
     \/ pc # "retry" /\ Len(invocations) = 2 /\ ~invocations[2].silenced

BracketFile == join(<<HeaderPytestWatch, IgnoreBracket>>, <<"\n">>)

NativeFile == join(<<HeaderPytestWatch, IgnoreFirst, Continuation>>, <<"\n">>)

\* C1: a key of the argument structure whose value is truthy when
\* merge_config is called has the same value at every point of the call and
\* after it, whatever the section holds and however discovery ends.
C1_CliPrecedence ==
  \A k \in ArgKeys : truthy(args0[k]) => args[k] = args0[k]

\* C1 witness: merge_config has returned after the loop met a key with a
\* truthy value whose option the section defines
C1_Witness ==
  /\ pc = "done"
  /\ result = Return(TRUE)
  /\ \E k \in ArgKeys : truthy(args0[k]) /\ Defines(Config, k)

\* C2 (as claimed; TLC refutes it): whenever discovery yields a path or
\* None, merge_config returns true; nothing in the located file or its
\* option values makes it raise or return false.
C2_ReturnsTrueAfterDiscovery ==
  pc = "done" /\ LastInvocation.exc = NoError => result = Return(TRUE)

\* C3 (as claimed; TLC refutes it): an interrupted dry invocation is the
\* last one, and merge_config has returned false right after it, silent set
\* or not.
C3_InterruptionShortCircuits ==
  \A i \in 1..Len(invocations) :
    Interrupted(invocations[i]) =>
      i = Len(invocations) /\ pc = "done" /\ result = Return(FALSE)

\* C3, amended: an interruption of the final dry invocation (the only one
\* when silent is unset, the unsilenced retry when it is set) makes
\* merge_config return false at once, with no further invocation; an
\* interruption of the silenced attempt is caught and followed by the
\* message and one unsilenced invocation.
C3_FinalInterruptionReturnsFalse ==
  \A i \in 1..Len(invocations) :
    Interrupted(invocations[i]) =>
      IF invocations[i].silenced
        THEN i = 1 /\ Retried
        ELSE i = Len(invocations) /\ pc = "done" /\ result = Return(FALSE)

\* C3 witness: the silenced attempt ended with the "interrupted" exit code,
\* the retry was interrupted by the signal, merge_config returned false
C3_Witness ==
  /\ pc = "done"
  /\ Len(invocations) = 2
  /\ invocations[1].silenced
  /\ invocations[1].end = EXIT_INTERRUPTED
  /\ invocations[2].end = "KeyboardInterrupt"
  /\ result = Return(FALSE)

\* C4: with silent set there are at most two dry invocations; a silenced
\* attempt that raises (the interruption included) is followed by exactly
\* one line on stderr and then exactly one unsilenced invocation with the
\* same argv, whose outcome is final; a silenced attempt that succeeds is
\* followed by neither; with silent unset there is one invocation, not
\* silenced, and no line.
C4_RetryProtocol ==
  /\ Len(invocations) <= 2
  /\ \A i \in 1..Len(invocations) :
       invocations[i].argv = pytest_args \o <<"--collect-only">>
  /\ pc = "merge_config" => invocations = <<>> /\ stderr = 0
  /\ pc # "merge_config" /\ ~silent =>
       Len(invocations) = 1 /\ ~invocations[1].silenced /\ stderr = 0
  /\ pc # "merge_config" /\ silent =>
       /\ invocations[1].silenced
       /\ IF invocations[1].exc = NoError
            THEN Len(invocations) = 1 /\ stderr = 0
            ELSE Retried
  /\ pc \in {"located", "done"} =>
       IF LastInvocation.exc = NoError
         THEN config_path = LastInvocation.path
         ELSE pc = "done" /\ result \in {Return(FALSE), Raise(LastInvocation.exc)}

\* C4 witness: the silenced attempt was interrupted, the message was
\* printed, the unsilenced invocation found the file
C4_Witness ==
  /\ pc = "done"
  /\ silent
  /\ Len(invocations) = 2
  /\ invocations[1].exc = "KeyboardInterrupt"
  /\ stderr = 1
  /\ invocations[2].exc = NoError
  /\ invocations[2].path # NoPath

\* C5 (as claimed; TLC refutes it): a collection error of the unsilenced
\* retry leaves merge_config as an exception, not caught by it.
C5_SecondCollectErrorPropagates ==
  pc = "done" /\ Len(invocations) = 2 /\ CollectionError(invocations[2])
    => result = Raise("CollectError")

\* C5, amended: a collection error of the silenced attempt is followed by
\* the message and one unsilenced invocation; a collection error of the
\* final invocation is caught by merge_config, which returns false.
C5_SecondCollectErrorReturnsFalse ==
  \A i \in 1..Len(invocations) :
    CollectionError(invocations[i]) =>
      IF invocations[i].silenced
        THEN i = 1 /\ Retried
        ELSE i = Len(invocations) /\ pc = "done" /\ result = Return(FALSE)

\* C5 witness: both attempts ended with a collection error
C5_Witness ==
  /\ pc = "done"
  /\ Len(invocations) = 2
  /\ CollectionError(invocations[1])
  /\ CollectionError(invocations[2])
  /\ result = Return(FALSE)

\* C6 (as claimed; TLC refutes it): read then get give the sequence
\* ["a", "b"] for `ignore = [ "a", "b" ]` as for the native multi-line form,
\* and merging the bracket file into `--ignore: []` gives ["a", "b"].
C6_BracketEqualsNative ==
  pc = "done" /\ content = BracketFile /\ args0[IgnoreKey] = ListOf(<<>>) =>
    /\ MultiLineConfigParser_get(ConfigOf[BracketFile], PytestWatchSection,
                                 <<"ignore">>)
         = Returns(ListOf(<<(<<"a">>), (<<"b">>)>>))
    /\ MultiLineConfigParser_get(ConfigOf[NativeFile], PytestWatchSection,
                                 <<"ignore">>)
         = Returns(ListOf(<<(<<"a">>), (<<"b">>)>>))
    /\ args[IgnoreKey] = ListOf(<<(<<"a">>), (<<"b">>)>>)

\* C7 (as claimed; TLC refutes it): `--ignore: ["x"]` merged with a section
\* whose ignore option holds the lines a and b ends as ["x", "a", "b"].
C7_SequencesAccumulate ==
  /\ pc = "done"
  /\ result = Return(TRUE)
  /\ args0[IgnoreKey] = ListOf(<<(<<"x">>)>>)
  /\ Defines(Config, IgnoreKey)
  /\ StoredValue(Config, PytestWatchSection, <<"ignore">>) = <<"a", "\n", "b">>
  => args[IgnoreKey] = ListOf(<<(<<"x">>), (<<"a">>), (<<"b">>)>>)

\* C7, amended: a sequence-typed option stays a sequence that begins with
\* the items it had, and one that had items when merge_config was called is
\* left as it was: `["x"]` with a section giving a and b ends as `["x"]`.
C7_NonEmptySequenceKept ==
  \A k \in ArgKeys :
    args0[k].type = "list" =>
      /\ args[k].type = "list"
      /\ Len(args[k].items) >= Len(args0[k].items)
      /\ SubSeq(args[k].items, 1, Len(args0[k].items)) = args0[k].items
      /\ args0[k].items # <<>> => args[k].items = args0[k].items

\* C7 witness: merge_config returned with `--ignore` given as ["x"] and the
\* section giving ignore the lines a and b
C7_Witness ==
  /\ pc = "done"
  /\ result = Return(TRUE)
  /\ args0[IgnoreKey] = ListOf(<<(<<"x">>)>>)
  /\ content = NativeFile
  /\ StoredValue(Config, PytestWatchSection, <<"ignore">>) = <<"a", "\n", "b">>

\* C8 (as claimed; TLC refutes it): when discovery finds no file, and for
\* every located file without a [pytest-watch] section, merge_config
\* returns true and the argument structure is as it was.
C8_NothingToMergeIsNoOp ==
  /\ pc = "done"
  /\ LastInvocation.exc = NoError
  /\ \/ config_path = NoPath
     \/ content \in Contents /\ ~has_section(read_string(content), PytestWatchSection)
  => result = Return(TRUE) /\ args = args0

\* the section names of a parser, each with its option names, in file order
Names(config) ==
  [i \in 1..Len(config.sects) |->
     [name |-> config.sects[i].name,
      options |-> [j \in 1..Len(config.sects[i].opts) |->
                     config.sects[i].opts[j].name]]]

\* C9 (as claimed; TLC refutes it): the rewritten text has the section
\* headers of the file and, in each section, its option names.
C9_NormalizationKeepsNames ==
  pc = "done" /\ content \in Contents =>
    /\ read_string(processed(content)).err = NoError
    /\ Names(read_string(processed(content))) = Names(read_string(content))

\* C10 (as claimed; TLC refutes it): an option the command line left falsy
\* and the section defines receives the section's value by its type: a
\* sequence gains the value's items, a flag stays a boolean, any other
\* option holds the raw string.
C10_AppliedByType ==
  pc = "done" /\ content \in Contents /\ Config.err = NoError =>
    \A k \in ArgKeys :
      ~truthy(args0[k]) /\ Defines(Config, k) =>
        CASE args0[k].type = "list" ->
               /\ args[k].type = "list"
               /\ Len(args[k].items) > Len(args0[k].items)
          [] args0[k].type = "bool" -> args[k].type = "bool"
          [] OTHER ->
               /\ args[k].type = "str"
               /\ args[k].str =
                    StoredValue(Config, PytestWatchSection, ConfigName(k))

====
